---- MODULE Spec2Model ----
(***************************************************************************)
(* The codec package: the byte scanner findEncodingMatches, the Unicode    *)
(* decoder decodeUnicode, and the fixed-point decode loop that drives      *)
(* them.  A text is a sequence of bytes (0..255).  The source indexes      *)
(* strings from 0; At(s, k) is the source's s[k] and Slice(s, a, b) its    *)
(* s[a:b].                                                                 *)
(***************************************************************************)
EXTENDS Integers, Sequences, FiniteSets, TLC

VARIABLES
  data,          \* the text of the current pass
  i,             \* findEncodingMatches: the scanner's position
  all,           \* findEncodingMatches: the matches appended so far
  matches,       \* the list findEncodingMatches returned
  decodes,       \* one pass: each match with its encoded and decoded value
  segments,      \* the segments the last pass reported
  passes,        \* the passes the caller's loop has completed, up to MaxPasses
  pc,            \* where the decode loop is
  encodedValue,  \* a direct call of decodeUnicode: its argument
  decodedValue,  \* a direct call of decodeUnicode: its result
  fullDecoded    \* the text the caller's loop returned, NotReturned before that

vars == <<data, i, all, matches, decodes, segments, passes, pc, encodedValue, decodedValue,
          fullDecoded>>

(***************************************************************************)
(* Bytes                                                                   *)
(***************************************************************************)
\* the byte value of each character literal the model's texts are written in
Ord ==
  ("%" :> 37) @@ ("+" :> 43) @@ ("=" :> 61) @@ ("\\" :> 92) @@
  (" " :> 32) @@ ("\n" :> 10) @@ ("\t" :> 9) @@
  ("0" :> 48) @@ ("1" :> 49) @@ ("2" :> 50) @@ ("3" :> 51) @@ ("4" :> 52) @@
  ("5" :> 53) @@ ("9" :> 57) @@ ("e" :> 101) @@
  ("I" :> 73) @@ ("J" :> 74) @@ ("T" :> 84) @@ ("U" :> 85) @@ ("Z" :> 90) @@
  ("u" :> 117) @@ ("x" :> 120)

Bytes(cs) == [k \in 1..Len(cs) |-> Ord[cs[k]]]

At(s, k) == s[k + 1]

Slice(s, a, b) == SubSeq(s, a + 1, b)

(***************************************************************************)
(* Lookup tables for byte classification                                   *)
(***************************************************************************)
isHexChar(c) == c \in 48..57 \/ c \in 65..70 \/ c \in 97..102

isB64NotHex(c) == c \in 71..90 \/ c \in 103..122 \/ c \in {95, 47, 43, 45}

isB64Char(c) == isHexChar(c) \/ isB64NotHex(c)

isWhitespace(c) == c \in {32, 9, 10, 13, 12, 11}

(***************************************************************************)
(* Encodings                                                               *)
(***************************************************************************)
percentKind == 1
unicodeKind == 2
hexKind == 4
base64Kind == 8

encodings ==
  << [kind |-> percentKind, precedence |-> 4],
     [kind |-> unicodeKind, precedence |-> 3],
     [kind |-> hexKind, precedence |-> 2],
     [kind |-> base64Kind, precedence |-> 1] >>

encodingMatch(e, s, t) == [encoding |-> e, start |-> s, end |-> t]

\* two half-open spans intersect
overlaps(m, o) == m.start < o.end /\ o.start < m.end

(***************************************************************************)
(* findEncodingMatches: the inner loops of the scanner                     *)
(***************************************************************************)
\* a %XX triplet at j
PercentAt(s, j) ==
  /\ j < Len(s) /\ At(s, j) = 37
  /\ j + 2 < Len(s) /\ isHexChar(At(s, j + 1)) /\ isHexChar(At(s, j + 2))

\* LastPercentEnd, were the scan to run on past a newline
RECURSIVE LastPercentEndAcrossLines(_, _, _)
LastPercentEndAcrossLines(s, j, lastPercentEnd) ==
  IF j < Len(s)
  THEN LastPercentEndAcrossLines(s, j + 1,
                                 IF PercentAt(s, j) THEN j + 3 ELSE lastPercentEnd)
  ELSE lastPercentEnd

\* the end of the last %XX before the next newline, scanning from j
RECURSIVE LastPercentEnd(_, _, _)
LastPercentEnd(s, j, lastPercentEnd) ==
  IF j < Len(s) /\ At(s, j) # 10
  THEN LastPercentEnd(s, j + 1, IF PercentAt(s, j) THEN j + 3 ELSE lastPercentEnd)
  ELSE lastPercentEnd

\* U+XXXX at j
CodePointAt(s, j) ==
  /\ j < Len(s) /\ At(s, j) = 85
  /\ j + 5 < Len(s) /\ At(s, j + 1) = 43
  /\ isHexChar(At(s, j + 2)) /\ isHexChar(At(s, j + 3))
  /\ isHexChar(At(s, j + 4)) /\ isHexChar(At(s, j + 5))

\* the byte after the four hex digits is whitespace or the end
AfterHexOk(s, afterHex) ==
  IF afterHex >= Len(s) THEN TRUE ELSE isWhitespace(At(s, afterHex))

RECURSIVE SkipWhitespace(_, _)
SkipWhitespace(s, ws) ==
  IF ws < Len(s) /\ isWhitespace(At(s, ws)) THEN SkipWhitespace(s, ws + 1) ELSE ws

\* CodePointsEnd, were a further U+XXXX taken whatever follows it
RECURSIVE CodePointsEndUnchecked(_, _, _)
CodePointsEndUnchecked(s, j, end) ==
  IF j < Len(s) /\ isWhitespace(At(s, j))
  THEN LET ws == SkipWhitespace(s, j)
       IN  IF CodePointAt(s, ws)
           THEN CodePointsEndUnchecked(s, ws + 6, ws + 6)
           ELSE end
  ELSE end

\* consume additional U+XXXX sequences separated by whitespace
RECURSIVE CodePointsEnd(_, _, _)
CodePointsEnd(s, j, end) ==
  IF j < Len(s) /\ isWhitespace(At(s, j))
  THEN LET ws == SkipWhitespace(s, j)
       IN  IF CodePointAt(s, ws) /\ AfterHexOk(s, ws + 6)
           THEN CodePointsEnd(s, ws + 6, ws + 6)
           ELSE end
  ELSE end

IsU(uc) == uc = 117 \/ uc = 85

\* \\uXXXX at the scanner's position: the check that opens a match
EscapeDoubleFirst(s, j) ==
  /\ j < Len(s) /\ At(s, j) = 92
  /\ j + 7 < Len(s) /\ At(s, j + 1) = 92
  /\ IsU(At(s, j + 2))
  /\ isHexChar(At(s, j + 3)) /\ isHexChar(At(s, j + 4))
  /\ isHexChar(At(s, j + 5)) /\ isHexChar(At(s, j + 6))

\* \\uXXXX at j: the check that extends a match
EscapeDoubleNext(s, j) ==
  /\ j + 6 < Len(s) /\ At(s, j) = 92 /\ At(s, j + 1) = 92
  /\ IsU(At(s, j + 2))
  /\ isHexChar(At(s, j + 3)) /\ isHexChar(At(s, j + 4))
  /\ isHexChar(At(s, j + 5)) /\ isHexChar(At(s, j + 6))

\* \uXXXX at j
EscapeSingleAt(s, j) ==
  /\ j + 5 < Len(s) /\ At(s, j) = 92
  /\ IsU(At(s, j + 1))
  /\ isHexChar(At(s, j + 2)) /\ isHexChar(At(s, j + 3))
  /\ isHexChar(At(s, j + 4)) /\ isHexChar(At(s, j + 5))

\* consume additional \\uXXXX or \uXXXX sequences
RECURSIVE EscapesEnd(_, _)
EscapesEnd(s, j) ==
  IF EscapeDoubleNext(s, j) THEN EscapesEnd(s, j + 7)
  ELSE IF EscapeSingleAt(s, j) THEN EscapesEnd(s, j + 6)
  ELSE j

\* the end of the run of base64-alphabet bytes from j
RECURSIVE RunEnd(_, _)
RunEnd(s, j) == IF j < Len(s) /\ isB64Char(At(s, j)) THEN RunEnd(s, j + 1) ELSE j

\* allHex over the run [start, end)
RunAllHex(s, start, end) == \A k \in start..(end - 1) : ~isB64NotHex(At(s, k))

\* count trailing '=' (up to 2) for base64 padding
RECURSIVE PaddingEnd(_, _, _)
PaddingEnd(s, end, eqCount) ==
  IF eqCount < 2 /\ end < Len(s) /\ At(s, end) = 61
  THEN PaddingEnd(s, end + 1, eqCount + 1)
  ELSE end

\* filter out lower precedence ones that overlap their neighbors
FilterSkips(a, k) ==
  \/ /\ k > 1
     /\ overlaps(a[k], a[k - 1])
     /\ a[k - 1].encoding.precedence > a[k].encoding.precedence
  \/ /\ k + 1 <= Len(a)
     /\ overlaps(a[k], a[k + 1])
     /\ a[k + 1].encoding.precedence > a[k].encoding.precedence

RECURSIVE FilterFrom(_, _)
FilterFrom(a, k) ==
  IF k > Len(a) THEN <<>>
  ELSE (IF FilterSkips(a, k) THEN <<>> ELSE <<a[k]>>) \o FilterFrom(a, k + 1)

Filtered(a) == IF Len(a) <= 1 THEN a ELSE FilterFrom(a, 1)

(***************************************************************************)
(* decodeUnicode                                                           *)
(***************************************************************************)
\* the value of a hex digit, 255 for any other byte
hexMap(c) ==
  IF c \in 48..57 THEN c - 48
  ELSE IF c \in 65..70 THEN c - 55
  ELSE IF c \in 97..102 THEN c - 87
  ELSE 255

\* parses exactly 4 hex characters into a rune value
parseHex4(s, offset) ==
  IF offset + 4 > Len(s) THEN [r |-> 0, ok |-> FALSE]
  ELSE IF \E k \in 0..3 : hexMap(At(s, offset + k)) = 255 THEN [r |-> 0, ok |-> FALSE]
  ELSE [r |-> hexMap(At(s, offset)) * 4096 + hexMap(At(s, offset + 1)) * 256
              + hexMap(At(s, offset + 2)) * 16 + hexMap(At(s, offset + 3)),
        ok |-> TRUE]

\* the UTF-8 bytes of a rune below 65536; a surrogate encodes as U+FFFD
EncodeRune(r) ==
  IF r < 128 THEN <<r>>
  ELSE IF r < 2048 THEN <<192 + (r \div 64), 128 + (r % 64)>>
  ELSE IF r \in 55296..57343 THEN <<239, 191, 189>>
  ELSE <<224 + (r \div 4096), 128 + ((r \div 64) % 64), 128 + (r % 64)>>

\* strings.Contains for a two-byte needle
Contains2(s, a, b) == \E k \in 1..(Len(s) - 1) : s[k] = a /\ s[k + 1] = b

RECURSIVE CodePointsLoop(_, _, _, _)
CodePointsLoop(s, j, buf, changed) ==
  IF j >= Len(s) THEN [buf |-> buf, changed |-> changed]
  ELSE IF j + 5 < Len(s) /\ At(s, j) = 85 /\ At(s, j + 1) = 43 /\ parseHex4(s, j + 2).ok
  THEN LET k == j + 6
           skip == /\ k < Len(s) /\ (At(s, k) = 32 \/ At(s, k) = 9)
                   /\ k + 6 < Len(s) /\ At(s, k + 1) = 85 /\ At(s, k + 2) = 43
       IN  CodePointsLoop(s, IF skip THEN k + 1 ELSE k,
                          buf \o EncodeRune(parseHex4(s, j + 2).r), TRUE)
  ELSE CodePointsLoop(s, j + 1, Append(buf, At(s, j)), changed)

decodeUnicodeCodePoints(s) ==
  LET res == CodePointsLoop(s, 0, <<>>, FALSE)
  IN  IF ~res.changed THEN s ELSE res.buf

RECURSIVE EscapesLoop(_, _, _, _)
EscapesLoop(s, j, buf, changed) ==
  IF j >= Len(s) THEN [buf |-> buf, changed |-> changed]
  ELSE IF /\ At(s, j) = 92 /\ j + 6 < Len(s) /\ At(s, j + 1) = 92
          /\ IsU(At(s, j + 2)) /\ parseHex4(s, j + 3).ok
  THEN EscapesLoop(s, j + 7, buf \o EncodeRune(parseHex4(s, j + 3).r), TRUE)
  ELSE IF /\ At(s, j) = 92 /\ j + 5 < Len(s)
          /\ IsU(At(s, j + 1)) /\ parseHex4(s, j + 2).ok
  THEN EscapesLoop(s, j + 6, buf \o EncodeRune(parseHex4(s, j + 2).r), TRUE)
  ELSE EscapesLoop(s, j + 1, Append(buf, At(s, j)), changed)

decodeUnicodeEscapes(s) ==
  LET res == EscapesLoop(s, 0, <<>>, FALSE)
  IN  IF ~res.changed THEN s ELSE res.buf

\* decodeUnicode, were the escape test to look for the lower-case \u only
decodeUnicodeLowerOnly(s) ==
  IF Contains2(s, 85, 43) THEN decodeUnicodeCodePoints(s)
  ELSE IF Contains2(s, 92, 117) THEN decodeUnicodeEscapes(s)
  ELSE s

decodeUnicode(s) ==
  IF Contains2(s, 85, 43) THEN decodeUnicodeCodePoints(s)
  ELSE IF Contains2(s, 92, 117) \/ Contains2(s, 92, 85) THEN decodeUnicodeEscapes(s)
  ELSE s

(***************************************************************************)
(* The percent, hex and base64 decoders                                    *)
(***************************************************************************)
\* printable text: no control or non-ASCII byte
isPrintable(bs) == \A k \in 1..Len(bs) : bs[k] \in 32..126 \/ bs[k] \in {9, 10, 13}

RECURSIVE PercentLoop(_, _)
PercentLoop(s, j) ==
  IF j >= Len(s) THEN <<>>
  ELSE IF PercentAt(s, j)
  THEN <<hexMap(At(s, j + 1)) * 16 + hexMap(At(s, j + 2))>> \o PercentLoop(s, j + 3)
  ELSE <<At(s, j)>> \o PercentLoop(s, j + 1)

decodePercent(s) ==
  LET out == PercentLoop(s, 0) IN IF isPrintable(out) THEN out ELSE s

decodeHex(s) ==
  IF Len(s) % 2 # 0 \/ \E k \in 1..Len(s) : hexMap(s[k]) = 255 THEN s
  ELSE LET out == [k \in 1..(Len(s) \div 2) |->
                     hexMap(s[2 * k - 1]) * 16 + hexMap(s[2 * k])]
       IN  IF isPrintable(out) THEN out ELSE s

\* the six bits of a base64 character, standard or URL-safe alphabet
b64Value(c) ==
  IF c \in 65..90 THEN c - 65
  ELSE IF c \in 97..122 THEN c - 71
  ELSE IF c \in 48..57 THEN c + 4
  ELSE IF c \in {43, 45} THEN 62
  ELSE IF c \in {47, 95} THEN 63
  ELSE 255

RECURSIVE B64Loop(_, _)
B64Loop(s, j) ==
  LET v(k) == b64Value(At(s, j + k))
      left == Len(s) - j
  IN  IF left >= 4
      THEN LET w == v(0) * 262144 + v(1) * 4096 + v(2) * 64 + v(3)
           IN  <<w \div 65536, (w \div 256) % 256, w % 256>> \o B64Loop(s, j + 4)
      ELSE IF left = 3
      THEN LET w == v(0) * 4096 + v(1) * 64 + v(2)
           IN  <<w \div 1024, (w \div 4) % 256>>
      ELSE IF left = 2
      THEN <<(v(0) * 64 + v(1)) \div 16>>
      ELSE <<>>

RECURSIVE StripPadding(_)
StripPadding(s) ==
  IF Len(s) > 0 /\ s[Len(s)] = 61 THEN StripPadding(SubSeq(s, 1, Len(s) - 1)) ELSE s

decodeBase64(s) ==
  LET body == StripPadding(s)
      bad  == \/ \E k \in 1..Len(body) : b64Value(body[k]) = 255
              \/ Len(body) % 4 = 1
              \/ Len(s) # Len(body) /\ Len(s) % 4 # 0
  IN  IF bad THEN s
      ELSE LET out == B64Loop(body, 0) IN IF isPrintable(out) THEN out ELSE s

\* the decoder of a match's encoding
decode(kind, s) ==
  IF kind = percentKind THEN decodePercent(s)
  ELSE IF kind = unicodeKind THEN decodeUnicode(s)
  ELSE IF kind = hexKind THEN decodeHex(s)
  ELSE decodeBase64(s)

\* the gaps between the matches and each match's decode result, in order
RECURSIVE Rebuild(_, _, _, _)
Rebuild(s, ds, k, from) ==
  IF k > Len(ds) THEN Slice(s, from, Len(s))
  ELSE Slice(s, from, ds[k].start) \o ds[k].decoded \o Rebuild(s, ds, k + 1, ds[k].end)

\* the matches whose decoder changed the text
Touched(ds) == SelectSeq(ds, LAMBDA d : d.decoded # d.encoded)

(***************************************************************************)
(* Input texts                                                             *)
(***************************************************************************)
\* the longest input, in pieces
MaxPieces == 4

\* the longest input of the runs that check termination, in pieces
MaxLoopPieces == 3

\* the pass counter stops counting here
MaxPasses == 4

\* the longest argument of a direct decodeUnicode call, in pieces
MaxUnits == 3

\* "253235253235253" and "2532352532352532": all-hex runs of 15 and 16 bytes
Hex15 == Bytes(<<"2","5","3","2","3","5","2","5","3","2","3","5","2","5","3">>)
Hex16 == Hex15 \o Bytes(<<"2">>)

Pieces ==
  { Bytes(<<"%","2","5">>),
    Bytes(<<"U","+","0","0","4","1">>),
    Bytes(<<"\\","u","0","0","4","1">>),
    Bytes(<<"\\","\\","U","0","0","e","9">>),
    Bytes(<<" ">>), Bytes(<<"\n">>), Bytes(<<"=">>),
    Bytes(<<"2","5">>), Hex15, Hex16,
    Bytes(<<"J","T","I","1","J","T","I","1">>) }

UnicodePieces ==
  { Bytes(<<"U","+","0","0","4","1">>), Bytes(<<"U","+","Z","Z","Z","Z">>),
    Bytes(<<"\\","u","0","0","4","1">>), Bytes(<<"\\","u","Z","Z","Z","Z">>),
    Bytes(<<"\\","\\","U","0","0","e","9">>), Bytes(<<"\\","\\","u","Z","Z","Z","Z">>),
    Bytes(<<" ">>), Bytes(<<"x">>) }

\* every concatenation of at most k pieces
RECURSIVE TextsOf(_, _)
TextsOf(ps, k) ==
  IF k = 0 THEN {<<>>}
  ELSE LET shorter == TextsOf(ps, k - 1)
       IN  shorter \cup {p \o t : p \in ps, t \in shorter}

(***************************************************************************)
(* The decode loop: findEncodingMatches step by step, then one pass        *)
(***************************************************************************)
\* the value of fullDecoded while the loop runs: no text, a text holds bytes
NotReturned == <<-1>>

Init ==
  /\ data \in TextsOf(Pieces, MaxPieces)
  /\ i = 0
  /\ all = <<>>
  /\ matches = <<>>
  /\ decodes = <<>>
  /\ segments = <<>>
  /\ passes = 0
  /\ pc = "scan"
  /\ encodedValue = <<>>
  /\ decodedValue = <<>>
  /\ fullDecoded = NotReturned

Scanning == pc = "scan" /\ i < Len(data)

CodePointsHere == CodePointAt(data, i) /\ AfterHexOk(data, i + 6)

EscapeSingleHere == ~EscapeDoubleFirst(data, i) /\ EscapeSingleAt(data, i)

RunHere ==
  /\ ~PercentAt(data, i)
  /\ ~CodePointsHere
  /\ ~EscapeDoubleFirst(data, i)
  /\ ~EscapeSingleAt(data, i)
  /\ isB64Char(At(data, i))

\* ScanPercent, were the scanner to resume right after the first triplet
ScanPercentResumeEarly ==
  /\ Scanning
  /\ PercentAt(data, i)
  /\ LET lastPercentEnd == LastPercentEnd(data, i + 3, i + 3)
     IN  /\ all' = Append(all, encodingMatch(encodings[1], i, lastPercentEnd))
         /\ i' = i + 3
  /\ UNCHANGED <<data, matches, decodes, segments, passes, pc, encodedValue, decodedValue, fullDecoded>>

\* --- Percent encoding: %XX ---
ScanPercent ==
  /\ Scanning
  /\ PercentAt(data, i)
  /\ LET lastPercentEnd == LastPercentEnd(data, i + 3, i + 3)
     IN  /\ all' = Append(all, encodingMatch(encodings[1], i, lastPercentEnd))
         /\ i' = lastPercentEnd
  /\ UNCHANGED <<data, matches, decodes, segments, passes, pc, encodedValue, decodedValue, fullDecoded>>

\* --- Unicode code points: U+XXXX ---
ScanCodePoints ==
  /\ Scanning
  /\ ~PercentAt(data, i)
  /\ CodePointsHere
  /\ LET end == CodePointsEnd(data, i + 6, i + 6)
     IN  /\ all' = Append(all, encodingMatch(encodings[2], i, end))
         /\ i' = end
  /\ UNCHANGED <<data, matches, decodes, segments, passes, pc, encodedValue, decodedValue, fullDecoded>>

\* --- Unicode escapes: \\uXXXX (double backslash) ---
ScanEscapeDouble ==
  /\ Scanning
  /\ EscapeDoubleFirst(data, i)
  /\ LET end == EscapesEnd(data, i + 7)
     IN  /\ all' = Append(all, encodingMatch(encodings[2], i, end))
         /\ i' = end
  /\ UNCHANGED <<data, matches, decodes, segments, passes, pc, encodedValue, decodedValue, fullDecoded>>

\* --- Unicode escapes: \uXXXX (single backslash) ---
ScanEscapeSingle ==
  /\ Scanning
  /\ EscapeSingleHere
  /\ LET end == EscapesEnd(data, i + 6)
     IN  /\ all' = Append(all, encodingMatch(encodings[2], i, end))
         /\ i' = end
  /\ UNCHANGED <<data, matches, decodes, segments, passes, pc, encodedValue, decodedValue, fullDecoded>>

\* ScanRun, were the hex threshold one byte higher
ScanRunHexOver32 ==
  /\ Scanning
  /\ RunHere
  /\ LET start  == i
         runEnd == RunEnd(data, i + 1)
         runLen == runEnd - start
         allHex == RunAllHex(data, start, runEnd)
         end    == PaddingEnd(data, runEnd, 0)
     IN  /\ i' = runEnd
         /\ all' = IF allHex /\ runLen > 32
                   THEN Append(all, encodingMatch(encodings[3], start, start + runLen))
                   ELSE IF runLen >= 16
                   THEN Append(all, encodingMatch(encodings[4], start, end))
                   ELSE all
  /\ UNCHANGED <<data, matches, decodes, segments, passes, pc, encodedValue, decodedValue, fullDecoded>>

\* ScanRun, were the base64 threshold to count the consumed padding
ScanRunPaddedLength ==
  /\ Scanning
  /\ RunHere
  /\ LET start  == i
         runEnd == RunEnd(data, i + 1)
         runLen == runEnd - start
         allHex == RunAllHex(data, start, runEnd)
         end    == PaddingEnd(data, runEnd, 0)
     IN  /\ i' = runEnd
         /\ all' = IF allHex /\ runLen >= 32
                   THEN Append(all, encodingMatch(encodings[3], start, start + runLen))
                   ELSE IF end - start >= 16
                   THEN Append(all, encodingMatch(encodings[4], start, end))
                   ELSE all
  /\ UNCHANGED <<data, matches, decodes, segments, passes, pc, encodedValue, decodedValue, fullDecoded>>

\* ScanRun, were the scanner to resume inside a run that is long enough to
\* match, after its first 16 bytes
ScanRunResumeEarly ==
  /\ Scanning
  /\ RunHere
  /\ LET start  == i
         runEnd == RunEnd(data, i + 1)
         runLen == runEnd - start
         allHex == RunAllHex(data, start, runEnd)
         end    == PaddingEnd(data, runEnd, 0)
     IN  /\ i' = IF runLen >= 16 THEN start + 16 ELSE runEnd
         /\ all' = IF allHex /\ runLen >= 32
                   THEN Append(all, encodingMatch(encodings[3], start, start + runLen))
                   ELSE IF runLen >= 16
                   THEN Append(all, encodingMatch(encodings[4], start, end))
                   ELSE all
  /\ UNCHANGED <<data, matches, decodes, segments, passes, pc, encodedValue, decodedValue, fullDecoded>>

\* --- Hex / Base64 runs ---
ScanRun ==
  /\ Scanning
  /\ RunHere
  /\ LET start  == i
         runEnd == RunEnd(data, i + 1)
         runLen == runEnd - start
         allHex == RunAllHex(data, start, runEnd)
         end    == PaddingEnd(data, runEnd, 0)
     IN  /\ i' = runEnd
         /\ all' = IF allHex /\ runLen >= 32
                   THEN Append(all, encodingMatch(encodings[3], start, start + runLen))
                   ELSE IF runLen >= 16
                   THEN Append(all, encodingMatch(encodings[4], start, end))
                   ELSE all
  /\ UNCHANGED <<data, matches, decodes, segments, passes, pc, encodedValue, decodedValue, fullDecoded>>

\* ScanSkip, were the position left where it is
ScanSkipStuck ==
  /\ Scanning
  /\ ~PercentAt(data, i)
  /\ ~CodePointsHere
  /\ ~EscapeDoubleFirst(data, i)
  /\ ~EscapeSingleAt(data, i)
  /\ ~isB64Char(At(data, i))
  /\ i' = i
  /\ UNCHANGED <<data, all, matches, decodes, segments, passes, pc, encodedValue, decodedValue, fullDecoded>>

\* no encoding starts at this byte
ScanSkip ==
  /\ Scanning
  /\ ~PercentAt(data, i)
  /\ ~CodePointsHere
  /\ ~EscapeDoubleFirst(data, i)
  /\ ~EscapeSingleAt(data, i)
  /\ ~isB64Char(At(data, i))
  /\ i' = i + 1
  /\ UNCHANGED <<data, all, matches, decodes, segments, passes, pc, encodedValue, decodedValue, fullDecoded>>

\* the scan is over: filter by precedence and return
ScanReturn ==
  /\ pc = "scan"
  /\ i >= Len(data)
  /\ matches' = Filtered(all)
  /\ pc' = "decode"
  /\ UNCHANGED <<data, i, all, decodes, segments, passes, encodedValue, decodedValue, fullDecoded>>

\* invoke each surviving match's decoder, in ascending span order
DecodeMatches ==
  /\ pc = "decode"
  /\ decodes' = [k \in 1..Len(matches) |->
                   LET m == matches[k]
                       e == Slice(data, m.start, m.end)
                   IN  [kind |-> m.encoding.kind, start |-> m.start, end |-> m.end,
                        encoded |-> e, decoded |-> decode(m.encoding.kind, e)]]
  /\ pc' = "rebuild"
  /\ UNCHANGED <<data, i, all, matches, segments, passes, encodedValue, decodedValue, fullDecoded>>

\* rebuild the text and report the touched segments; the caller loops on them
RebuildText ==
  /\ pc = "rebuild"
  /\ data' = Rebuild(data, decodes, 1, 0)
  /\ segments' = Touched(decodes)
  /\ i' = 0
  /\ all' = <<>>
  /\ passes' = IF passes < MaxPasses THEN passes + 1 ELSE passes
  /\ pc' = IF Len(Touched(decodes)) = 0 THEN "fixed" ELSE "scan"
  /\ UNCHANGED <<matches, decodes, encodedValue, decodedValue, fullDecoded>>

Next ==
  \/ ScanPercent
  \/ ScanCodePoints
  \/ ScanEscapeDouble
  \/ ScanEscapeSingle
  \/ ScanRun
  \/ ScanSkip
  \/ ScanReturn
  \/ DecodeMatches
  \/ RebuildText

Spec == Init /\ [][Next]_vars

InitLoop ==
  /\ data \in TextsOf(Pieces, MaxLoopPieces)
  /\ i = 0
  /\ all = <<>>
  /\ matches = <<>>
  /\ decodes = <<>>
  /\ segments = <<>>
  /\ passes = 0
  /\ pc = "scan"
  /\ encodedValue = <<>>
  /\ decodedValue = <<>>
  /\ fullDecoded = NotReturned

\* the caller's loop goes on to the next step until a pass reports no segment
FairSpec == InitLoop /\ [][Next]_vars /\ WF_vars(Next)

\* the loop has returned its text: call Decode once more on that text
DecodeAgain ==
  /\ pc = "fixed"
  /\ fullDecoded = NotReturned
  /\ fullDecoded' = data
  /\ i' = 0
  /\ all' = <<>>
  /\ pc' = "scan"
  /\ UNCHANGED <<data, matches, decodes, segments, passes, encodedValue, decodedValue>>

NextAgain == Next \/ DecodeAgain

\* the caller's loop, then one more pass on what it returned
SpecAgain == InitLoop /\ [][NextAgain]_vars

(***************************************************************************)
(* A direct call of decodeUnicode                                          *)
(***************************************************************************)
InitUnicode ==
  /\ encodedValue \in TextsOf(UnicodePieces, MaxUnits)
  /\ decodedValue = <<>>
  /\ pc = "call"
  /\ data = <<>>
  /\ i = 0
  /\ all = <<>>
  /\ matches = <<>>
  /\ decodes = <<>>
  /\ segments = <<>>
  /\ passes = 0
  /\ fullDecoded = NotReturned

CallCodePoints ==
  /\ pc = "call"
  /\ Contains2(encodedValue, 85, 43) = TRUE
  /\ decodedValue' = decodeUnicode(encodedValue)
  /\ pc' = "returned"
  /\ UNCHANGED <<data, i, all, matches, decodes, segments, passes, encodedValue, fullDecoded>>

CallEscapes ==
  /\ pc = "call"
  /\ ~Contains2(encodedValue, 85, 43)
  /\ (Contains2(encodedValue, 92, 117) \/ Contains2(encodedValue, 92, 85)) = TRUE
  /\ decodedValue' = decodeUnicode(encodedValue)
  /\ pc' = "returned"
  /\ UNCHANGED <<data, i, all, matches, decodes, segments, passes, encodedValue, fullDecoded>>

CallPlain ==
  /\ pc = "call"
  /\ ~Contains2(encodedValue, 85, 43)
  /\ ~Contains2(encodedValue, 92, 117)
  /\ ~Contains2(encodedValue, 92, 85)
  /\ decodedValue' = decodeUnicode(encodedValue)
  /\ pc' = "returned"
  /\ UNCHANGED <<data, i, all, matches, decodes, segments, passes, encodedValue, fullDecoded>>

NextUnicode == CallCodePoints \/ CallEscapes \/ CallPlain

SpecUnicode == InitUnicode /\ [][NextUnicode]_vars

(***************************************************************************)
(* Properties                                                              *)
(***************************************************************************)
\* findEncodingMatches has just returned `matches` for the text `data`
Returned == pc = "decode"

KindsOf(ms) == {ms[k].encoding.kind : k \in 1..Len(ms)}

\* a %XX triplet: a '%' and two hex digits, all inside the text
Triplet(s, p) ==
  /\ p + 3 <= Len(s)
  /\ s[p + 1] = Ord["%"] /\ isHexChar(s[p + 2]) /\ isHexChar(s[p + 3])

\* where the maximal run of base64-alphabet bytes that starts at a stops
RunStop(s, a) ==
  CHOOSE e \in a..Len(s) :
    /\ \A k \in a..(e - 1) : isB64Char(At(s, k))
    /\ e < Len(s) => ~isB64Char(At(s, e))

\* where the '=' bytes after e stop, at most two of them
PadStop(s, e) ==
  CHOOSE q \in e..(e + 2) :
    /\ q <= Len(s)
    /\ \A k \in e..(q - 1) : At(s, k) = Ord["="]
    /\ q < e + 2 /\ q < Len(s) => At(s, q) # Ord["="]

HexRun(s, a, e) == \A k \in a..(e - 1) : isHexChar(At(s, k))

\* C1: the list findEncodingMatches returns is in strictly increasing start
\* order and its spans do not overlap: for consecutive matches m1, m2,
\* 0 <= m1.start < m1.end <= m2.start < m2.end <= len(text).
C1_OrderedDisjoint ==
  Returned =>
    \A k \in 1..(Len(matches) - 1) :
      LET m1 == matches[k]
          m2 == matches[k + 1]
      IN  /\ 0 <= m1.start /\ m1.start < m1.end
          /\ m1.end <= m2.start
          /\ m2.start < m2.end /\ m2.end <= Len(data)

\* a returned list of three matches, two of them touching
C1_Witness ==
  /\ Returned
  /\ Len(matches) >= 3
  /\ \E k \in 1..(Len(matches) - 1) : matches[k].end = matches[k + 1].start
  /\ Cardinality(KindsOf(matches)) >= 2

\* C3: a scanned run of base64-alphabet bytes is emitted as a Hex match iff
\* all its bytes are hex digits and it is at least 32 bytes long without the
\* '=' padding; the Hex span is exactly the run, without any trailing '=';
\* an all-hex run of 16..31 bytes is emitted as Base64 instead.
C3_HexThreshold ==
  /\ [][ (Scanning /\ RunHere) =>
           LET e   == RunStop(data, i)
               hex == encodingMatch(encodings[3], i, e)
           IN  /\ (HexRun(data, i, e) /\ e - i >= 32) <=> (all' = Append(all, hex))
               /\ (HexRun(data, i, e) /\ e - i \in 16..31) =>
                    /\ Len(all') = Len(all) + 1
                    /\ all'[Len(all')].encoding.kind = base64Kind
                    /\ all'[Len(all')].start = i ]_vars
  /\ [](Returned =>
          \A k \in 1..Len(matches) :
            LET m == matches[k]
            IN  /\ m.encoding.kind = hexKind =>
                     /\ HexRun(data, m.start, m.end)
                     /\ m.end - m.start >= 32
                     /\ m.end = RunStop(data, m.start)
                /\ m.encoding.kind = base64Kind =>
                     LET e == RunStop(data, m.start)
                     IN  ~(HexRun(data, m.start, e) /\ e - m.start >= 32))

\* a Hex match of exactly 32 bytes with a '=' right after it
C3_Witness ==
  /\ Returned
  /\ \E k \in 1..Len(matches) :
       /\ matches[k].encoding.kind = hexKind
       /\ matches[k].end - matches[k].start = 32
       /\ matches[k].end < Len(data)
       /\ At(data, matches[k].end) = Ord["="]

\* C4 as the spec words it: a scanned run that is not Hex is emitted as
\* Base64 exactly when its length with the consumed '=' padding is >= 16,
\* the span including the padding; shorter than that, no match.
C4_PaddedLengthThreshold ==
  [][ (Scanning /\ RunHere) =>
        LET e   == RunStop(data, i)
            q   == PadStop(data, e)
            b64 == encodingMatch(encodings[4], i, q)
        IN  ~(HexRun(data, i, e) /\ e - i >= 32) =>
              /\ (q - i >= 16) <=> (all' = Append(all, b64))
              /\ (q - i < 16) => all' = all ]_vars

\* C4, amended: a scanned run that is not Hex is emitted as Base64 exactly
\* when the run without its '=' padding is >= 16 bytes long; the Base64 span
\* then includes the (at most two) consumed '='; a run shorter than 16 bytes
\* yields no match, whatever padding follows it.
C4_Base64Threshold ==
  [][ (Scanning /\ RunHere) =>
        LET e   == RunStop(data, i)
            q   == PadStop(data, e)
            b64 == encodingMatch(encodings[4], i, q)
        IN  ~(HexRun(data, i, e) /\ e - i >= 32) =>
              /\ (e - i >= 16) <=> (all' = Append(all, b64))
              /\ (e - i < 16) => all' = all ]_vars

\* a run of 15 bytes and a '=' left unmatched, and a Base64 match of a
\* 16-byte run with its '='
C4_Witness ==
  /\ Returned
  /\ \E a \in 0..Len(data) :
       /\ a + 16 <= Len(data)
       /\ RunStop(data, a) = a + 15
       /\ At(data, a + 15) = Ord["="]
       /\ \A k \in 1..Len(matches) : ~overlaps(matches[k], [start |-> a, end |-> a + 16])
  /\ \E k \in 1..Len(matches) :
       /\ matches[k].encoding.kind = base64Kind
       /\ matches[k].end - matches[k].start = 17
       /\ At(data, matches[k].end - 1) = Ord["="]

\* C5: every Percent match starts at a %XX, ends exactly at the end of the
\* last %XX that occurs before the next newline after its start, and holds
\* no newline: %XX on different lines are separate matches.
C5_PercentSpan ==
  Returned =>
    \A k \in 1..Len(matches) :
      LET m  == matches[k]
          nl == CHOOSE q \in m.start..Len(data) :
                  /\ \A r \in m.start..(q - 1) : At(data, r) # Ord["\n"]
                  /\ q < Len(data) => At(data, q) = Ord["\n"]
          ts == {p \in m.start..(nl - 1) : Triplet(data, p)}
      IN  m.encoding.kind = percentKind =>
            /\ Triplet(data, m.start)
            /\ \E p \in ts : m.end = p + 3 /\ \A r \in ts : r <= p
            /\ \A r \in m.start..(m.end - 1) : At(data, r) # Ord["\n"]

\* two Percent matches on two lines, the first spanning more than one %XX
C5_Witness ==
  /\ Returned
  /\ Len(matches) = 2
  /\ KindsOf(matches) = {percentKind}
  /\ matches[1].end - matches[1].start > 3
  /\ \E r \in matches[1].end..(matches[2].start - 1) : At(data, r) = Ord["\n"]

\* some returned match of one of the kinds covers the bytes [p, q)
Covered(kinds, p, q) ==
  \E k \in 1..Len(matches) :
    /\ matches[k].encoding.kind \in kinds
    /\ matches[k].start <= p /\ q <= matches[k].end

\* some returned match of one of the kinds holds a byte of [p, q)
Touches(kinds, p, q) ==
  \E k \in 1..Len(matches) :
    /\ matches[k].encoding.kind \in kinds
    /\ overlaps(matches[k], [start |-> p, end |-> q])

\* "U+" and four hex digits at p
Group6(s, p) ==
  /\ p + 6 <= Len(s)
  /\ At(s, p) = Ord["U"] /\ At(s, p + 1) = Ord["+"]
  /\ \A k \in 2..5 : isHexChar(At(s, p + k))

\* q is the end of the text or a whitespace byte
EndsWord(s, q) == IF q >= Len(s) THEN TRUE ELSE isWhitespace(At(s, q))

\* [p, q) lies inside a run of base64-alphabet bytes at least 16 long
InLongRun(s, p, q) ==
  \E a \in 0..p : RunStop(s, a) >= q /\ RunStop(s, a) - a >= 16

\* C2: bytes that satisfy the recognition rule of two kinds are reported
\* under the kind of higher precedence and never under the lower one: a valid
\* U+XXXX group inside a base64-alphabet run of 16 bytes or more is reported
\* as Unicode, and what lies between two %XX of one line as Percent.
C2_Precedence ==
  Returned =>
    /\ \A p \in 0..Len(data) :
         (Group6(data, p) /\ EndsWord(data, p + 6) /\ InLongRun(data, p, p + 6)) =>
           /\ Covered({unicodeKind}, p, p + 6)
           /\ ~Touches({hexKind, base64Kind}, p, p + 6)
    /\ \A p \in 0..Len(data) : \A q \in p..Len(data) :
         ( /\ Triplet(data, p) /\ Triplet(data, q)
           /\ \A r \in p..q : At(data, r) # Ord["\n"] ) =>
           /\ Covered({percentKind}, p, q + 3)
           /\ ~Touches({unicodeKind, hexKind, base64Kind}, p, q + 3)

\* the text is back-to-back \uXXXX and \\uXXXX escapes and nothing else
RECURSIVE AllEscapes(_)
AllEscapes(s) ==
  \/ s = <<>>
  \/ /\ Len(s) >= 6
     /\ s[1] = Ord["\\"] /\ s[2] \in {Ord["u"], Ord["U"]}
     /\ \A k \in 3..6 : isHexChar(s[k])
     /\ AllEscapes(SubSeq(s, 7, Len(s)))
  \/ /\ Len(s) >= 7
     /\ s[1] = Ord["\\"] /\ s[2] = Ord["\\"] /\ s[3] \in {Ord["u"], Ord["U"]}
     /\ \A k \in 4..7 : isHexChar(s[k])
     /\ AllEscapes(SubSeq(s, 8, Len(s)))

\* C6: for a text made only of back-to-back \uXXXX / \\uXXXX escapes,
\* findEncodingMatches returns exactly one match, of kind Unicode, whose span
\* is the whole text.
C6_EscapesWholeText ==
  (Returned /\ data # <<>> /\ AllEscapes(data)) =>
    matches = <<encodingMatch(encodings[2], 0, Len(data))>>

\* s is U+XXXX groups separated by non-empty runs of whitespace
RECURSIVE GroupsForm(_)
GroupsForm(s) ==
  /\ Group6(s, 0)
  /\ \/ Len(s) = 6
     \/ \E w \in 1..(Len(s) - 12) :
          /\ \A k \in 6..(5 + w) : isWhitespace(At(s, k))
          /\ GroupsForm(SubSeq(s, 7 + w, Len(s)))

\* C7: every Unicode match in U+XXXX notation is one or more U+XXXX groups
\* separated by non-empty whitespace runs, the byte after it is whitespace or
\* the end of the text, and no whitespace and further valid group follow it;
\* a U+XXXX whose next byte is neither whitespace nor the end is never
\* reported as Unicode.
C7_CodePointSpan ==
  Returned =>
    /\ \A k \in 1..Len(matches) :
         LET m == matches[k]
         IN  (m.encoding.kind = unicodeKind /\ At(data, m.start) = Ord["U"]) =>
               /\ GroupsForm(Slice(data, m.start, m.end))
               /\ EndsWord(data, m.end)
               /\ ~\E w \in 1..Len(data) :
                     /\ \A r \in m.end..(m.end + w - 1) :
                          r < Len(data) /\ isWhitespace(At(data, r))
                     /\ Group6(data, m.end + w)
                     /\ EndsWord(data, m.end + w + 6)
    /\ \A p \in 0..Len(data) :
         (Group6(data, p) /\ ~EndsWord(data, p + 6)) =>
           ~Covered({unicodeKind}, p, p + 6)

\* a Unicode match of two groups that stops before a U+XXXX which is not
\* followed by whitespace
C7_Witness ==
  /\ Returned
  /\ \E k \in 1..Len(matches) :
       /\ matches[k].encoding.kind = unicodeKind
       /\ At(data, matches[k].start) = Ord["U"]
       /\ matches[k].end - matches[k].start >= 13
       /\ matches[k].end < Len(data)

\* a unit whose four characters are not all hex digits
HasBadUnit(s) ==
  \E p \in 0..(Len(s) - 6) :
    /\ \/ At(s, p) = Ord["U"] /\ At(s, p + 1) = Ord["+"]
       \/ At(s, p) = Ord["\\"] /\ At(s, p + 1) \in {Ord["u"], Ord["U"]}
    /\ \E k \in 2..5 : ~isHexChar(At(s, p + k))

\* C8: when some unit of its argument has four characters that are not all
\* hex digits, decodeUnicode returns the argument unchanged, byte for byte,
\* even when other units of it are valid.
C8_NoPartialDecode ==
  (pc = "returned" /\ HasBadUnit(encodedValue)) => decodedValue = encodedValue

\* the code points of the U+XXXX groups of s, in order, and nothing else
RECURSIVE CodePointsText(_)
CodePointsText(s) ==
  IF s = <<>> THEN <<>>
  ELSE IF Group6(s, 0)
  THEN EncodeRune(hexMap(s[3]) * 4096 + hexMap(s[4]) * 256 + hexMap(s[5]) * 16 + hexMap(s[6]))
         \o CodePointsText(SubSeq(s, 7, Len(s)))
  ELSE CodePointsText(Tail(s))

\* C9: decodeUnicode of every U+XXXX match the scanner emits is exactly the
\* groups' code points in order, the separating whitespace removed.
C9_CodePointsOnly ==
  pc = "rebuild" =>
    \A k \in 1..Len(decodes) :
      (decodes[k].kind = unicodeKind /\ decodes[k].encoded[1] = Ord["U"]) =>
        decodes[k].decoded = CodePointsText(decodes[k].encoded)

\* C10: the fixed-point loop terminates: feeding each pass's output to the
\* next reaches, after finitely many passes, a pass that reports no segment.
C10_Terminates == <>(pc = "fixed")

\* the loop has ended after two passes that decoded something
C10_Witness == pc = "fixed" /\ passes >= 3 /\ segments = <<>>

\* C11: idempotence at the fixed point: one more decode pass on the text
\* the fixed-point loop returned reports zero segments and returns that text
\* unchanged, all through and after that pass.
C11_FixedPointIdempotent ==
  fullDecoded # NotReturned => (data = fullDecoded /\ segments = <<>>)

\* the extra pass is over, on a text that two earlier passes decoded and
\* in which the scanner still finds a match
C11_Witness ==
  /\ fullDecoded # NotReturned
  /\ pc = "fixed"
  /\ passes >= 4
  /\ matches # <<>>
  /\ data = fullDecoded

C13_UnicodeShrinks ==
  pc = "rebuild" =>
    \A k \in 1..Len(decodes) :
      decodes[k].kind = unicodeKind =>
        /\ decodes[k].decoded # decodes[k].encoded
        /\ Len(decodes[k].decoded) < Len(decodes[k].encoded)

\* one pass decoded a code-point match and a double-backslash escape match,
\* the latter to a two-byte character
C13_Witness ==
  /\ pc = "rebuild"
  /\ \E k, l \in 1..Len(decodes) :
       /\ decodes[k].kind = unicodeKind
       /\ decodes[k].encoded[1] = Ord["U"]
       /\ decodes[l].kind = unicodeKind
       /\ decodes[l].encoded[1] = Ord["\\"]
       /\ decodes[l].encoded[2] = Ord["\\"]
       /\ Len(decodes[l].decoded) = 2

====
